---- MODULE Spec2Model ----
(***************************************************************************)
(* Model of PersonaGenerator (src/dataGenerator.py): the uniqueness        *)
(* tracker, the statistics counters, the four field generators with their  *)
(* bounded retry loops and fallbacks, the persona assembler and the batch  *)
(* entry point.                                                            *)
(*                                                                         *)
(* Text values (names, e-mails, phones, IDs) are sequences of one-char     *)
(* strings, so that formatting, lower-casing, concatenation and split()    *)
(* are computed as the code computes them.  random.choice / randint are    *)
(* nondeterministic choices; each is drawn from a named subset of the      *)
(* values the code can draw.                                               *)
(*                                                                         *)
(* Scaling.  The retry budgets (200 / 100 / 50), the size of the initial   *)
(* alphabet (26) and the width of the subscriber field (4 digits) are      *)
(* scaled down so that exhausting a budget, cycling the alphabet and       *)
(* reaching the first subscriber number happen within a few calls.  The    *)
(* loops and formats keep the structure of the code.                       *)
(*                                                                         *)
(* Each method is one action.  The results a method can produce from a     *)
(* tracker and the counters are computed by an operator of the method's    *)
(* name (a set: one element per resolution of the random draws); the       *)
(* action picks one.  Specifications: Spec (every entry point),            *)
(* SpecPersona (generate_persona), SpecBatch (generate_multiple_personas   *)
(* and the report), SpecName and SpecPhone (one field generator alone).    *)
(***************************************************************************)
EXTENDS Integers, Sequences, FiniteSets, TLC

\* ------------------------------------------------------------------ bounds
\* generate_unique_name: max_attempts (200 in the source)
NameMaxAttempts == 2
\* generate_phone_number: max_attempts (100 in the source)
PhoneMaxAttempts == 2
\* generate_unique_email: max_attempts (50 in the source)
EmailMaxAttempts == 2
\* number of middle initials cycled by the name fallback (26 in the source)
AlphabetSize == 2
\* digits of the subscriber field of a phone (4 in the source)
SubscriberWidth == 1
\* personas one generator instance issues in a behaviour of Spec
MaxPersonas == 2
\* names / phones one generator tracks in a behaviour of SpecName / SpecPhone
MaxNames == 6
MaxPhones == 5
\* largest count passed to generate_multiple_personas
MaxCount == 2
\* largest count the number input of main() lets through (5000 in the source)
NumberInputMax == 1
\* direct calls of generate_unique_address
MaxAddresses == 4
\* generate_persona calls of the caller whose draws collide
MaxUnlucky == 5

\* --------------------------------------------------------------- text
RECURSIVE Str(_)
\* str(n) / f"{n}" for a non-negative integer: its decimal digits
Str(n) ==
    LET d == <<"0", "1", "2", "3", "4", "5", "6", "7", "8", "9">>
    IN  IF n < 10 THEN <<d[n + 1]>> ELSE Str(n \div 10) \o <<d[(n % 10) + 1]>>

RECURSIVE ZeroPad(_, _)
\* f"{n:0wd}": the decimal digits, left-padded with zeros to at least w chars
ZeroPad(s, w) == IF Len(s) >= w THEN s ELSE ZeroPad(<<"0">> \o s, w)

\* str.lower() on the letters the model's names use
LowerChar(c) ==
    CASE c = "J" -> "j"
      [] c = "S" -> "s"
      [] c = "A" -> "a"
      [] c = "B" -> "b"
      [] c = "C" -> "c"
      [] OTHER   -> c

lower(s) == [i \in 1..Len(s) |-> LowerChar(s[i])]

RECURSIVE split0(_)
\* s.split()[0] for a text without leading whitespace: the first token
split0(s) ==
    IF s = <<>> \/ Head(s) = " " THEN <<>> ELSE <<Head(s)>> \o split0(Tail(s))

\* chr(65 + k)
chr65(k) == <<"A", "B", "C", "D", "E", "F", "G", "H", "I", "J", "K", "L", "M",
              "N", "O", "P", "Q", "R", "S", "T", "U", "V", "W", "X", "Y", "Z">>[k + 1]

\* ------------------------------------------------------------ catalog
James    == <<"J", "a", "m", "e", "s">>
Jennifer == <<"J", "e", "n", "n", "i", "f", "e", "r">>
Smith    == <<"S", "m", "i", "t", "h">>

\* self.first_names, restricted to one name per gender
first_names == [male |-> {James}, female |-> {Jennifer}]

\* self.last_names, restricted to one name
last_names == {Smith}

\* self.public_places, restricted to two states and their first two places
public_places ==
    [Alabama |-> {[name |-> "Birmingham Public Library", address |-> "2100 Park Place",
                   city |-> "Birmingham", zip |-> "35203"],
                  [name |-> "Montgomery City Hall", address |-> "103 N Perry St",
                   city |-> "Montgomery", zip |-> "36104"]},
     Wyoming |-> {[name |-> "Laramie County Library", address |-> "2200 Pioneer Ave",
                   city |-> "Cheyenne", zip |-> "82001"],
                  [name |-> "Wyoming State Capitol", address |-> "200 W 24th St",
                   city |-> "Cheyenne", zip |-> "82002"]}]

\* self.state_codes
state_codes == [Alabama |-> "AL", Wyoming |-> "WY"]

\* self.area_codes (Alabama restricted to its first code)
area_codes ==
    [Alabama |-> {<<"2", "0", "5">>},
     Wyoming |-> {<<"3", "0", "7">>}]

\* the default of self.area_codes.get(state, ['555'])
PlaceholderAreaCode == <<"5", "5", "5">>

\* a state name that is no key of the catalog, and the two "no state" selectors
Atlantis == "Atlantis"
None == "None"
Mixed == "Mixed"
\* the state arguments the model's callers pass
StateArgs == {"Wyoming", None, Atlantis}

\* hashlib.md5('|'.join(str(a) for a in args)).hexdigest(), taken as injective:
\* the digest is identified with the tuple of its arguments
generate_unique_hash(args) == args


\* ------------------------------------------------------------ state
VARIABLES
    unique_tracker,     \* self.unique_tracker: the six sets of issued values
    generation_stats,   \* self.generation_stats: the three counters
    issued,             \* history: what the calls returned, in order (personas;
                        \* names or phones when a field generator is called alone)
    failed,             \* history: number of generate_persona runs that raised
    ret,                \* the last call: operation, arguments, result
    session_state,      \* st.session_state: generated_data, timestamp,
                        \* uniqueness_report (the generator is the two first
                        \* variables)
    discarded           \* history: what the generators replaced by a reset
                        \* had returned, in order

vars == <<unique_tracker, generation_stats, issued, failed, ret, session_state, discarded>>

\* PersonaGenerator.__init__: the tracker and the counters
EmptyTracker ==
    [full_names |-> {}, emails |-> {}, phones |-> {}, addresses |-> {},
     name_hashes |-> {}, person_hashes |-> {}]

ZeroStats == [collision_attempts |-> 0, unique_regenerations |-> 0, total_generated |-> 0]

\* mutation of Collided: a collision is counted twice
Collided_Twice(st) == [st EXCEPT !.collision_attempts = @ + 2]

\* self.generation_stats['collision_attempts'] += 1
Collided(st) == [st EXCEPT !.collision_attempts = @ + 1]

\* -------------------------------------------------- generate_unique_name
\* one draw of the loop body: gender, then first name, then last name
NamePicks ==
    {<<f, l>> : f \in UNION {first_names[g] : g \in DOMAIN first_names}, l \in last_names}

\* f"{first_name} {last_name}"
FullName(first_name, last_name) == first_name \o <<" ">> \o last_name

NameHash(first_name, last_name) == generate_unique_hash(<<first_name, last_name>>)

\* the acceptance test of the loop
NameIsNew(tr, first_name, last_name) ==
    /\ FullName(first_name, last_name) \notin tr.full_names
    /\ NameHash(first_name, last_name) \notin tr.name_hashes

\* mutation of RecordName: the full name is recorded, the hash is not
RecordName_NameOnly(tr, first_name, last_name) ==
    [tr EXCEPT !.full_names = @ \cup {FullName(first_name, last_name)}]

\* mutation of RecordName: the hash is recorded, the full name is not
RecordName_HashOnly(tr, first_name, last_name) ==
    [tr EXCEPT !.name_hashes = @ \cup {NameHash(first_name, last_name)}]

\* both name sets record the name
RecordName(tr, first_name, last_name) ==
    [tr EXCEPT !.full_names = @ \cup {FullName(first_name, last_name)},
               !.name_hashes = @ \cup {NameHash(first_name, last_name)}]

\* the middle initial of the fallback: chr(65 + (unique_id % 26))
MiddleInitial(tr) == chr65(Cardinality(tr.full_names) % AlphabetSize)

\* mutation of NameFallback: the fallback is not counted as a regeneration
NameFallback_NotCounted(tr, st, first_name, last_name) ==
    LET first == first_name \o <<" ", MiddleInitial(tr)>>
    IN  [first_name |-> first, last_name |-> last_name, path |-> "fallback",
         tr |-> RecordName(tr, first, last_name), st |-> st]

\* the fallback after the loop, on the names of the last attempt
NameFallback(tr, st, first_name, last_name) ==
    LET first == first_name \o <<" ", MiddleInitial(tr)>>
    IN  [first_name |-> first, last_name |-> last_name, path |-> "fallback",
         tr |-> RecordName(tr, first, last_name),
         st |-> [st EXCEPT !.unique_regenerations = @ + 1]]

RECURSIVE NameLoop(_, _, _, _)
\* the attempts from index `attempt` on; pick is the draw of the previous attempt
NameLoop(attempt, tr, st, pick) ==
    IF attempt >= NameMaxAttempts
    THEN {NameFallback(tr, st, pick[1], pick[2])}
    ELSE UNION {
           IF NameIsNew(tr, p[1], p[2])
           THEN {[first_name |-> p[1], last_name |-> p[2], path |-> "retry",
                  tr |-> RecordName(tr, p[1], p[2]), st |-> st]}
           ELSE NameLoop(attempt + 1, tr, Collided(st), p)
           : p \in NamePicks}

\* every result generate_unique_name can produce from tracker tr and stats st
generate_unique_name(tr, st) == NameLoop(0, tr, st, <<>>)

\* ------------------------------------------------- generate_phone_number
\* random.randint(200, 999), restricted to the value the fallback also uses
ExchangeMin == 200
ExchangeMax == 999
ExchangeChoices == {e \in {999} : ExchangeMin <= e /\ e <= ExchangeMax}

\* random.randint(1000, 9999): the SubscriberWidth-digit numbers, restricted
\* to the smallest
SubscriberMin == 10 ^ (SubscriberWidth - 1)
SubscriberMax == (10 ^ SubscriberWidth) - 1
SubscriberChoices == {n \in {SubscriberMin} : n <= SubscriberMax}

\* mutation of AreaCodesOf: the codes of all states, whatever the state
AreaCodesOf_AnyState(state) == UNION {area_codes[s] : s \in DOMAIN area_codes}

\* self.area_codes.get(state, ['555'])
AreaCodesOf(state) ==
    IF state \in DOMAIN area_codes THEN area_codes[state] ELSE {PlaceholderAreaCode}

\* f"({area_code}) {exchange}-{subscriber}"
FormatPhone(area_code, exchange, subscriber) ==
    <<"(">> \o area_code \o <<")", " ">> \o exchange \o <<"-">> \o subscriber

PhonePicks(state) ==
    {<<a, e, s>> : a \in AreaCodesOf(state), e \in ExchangeChoices, s \in SubscriberChoices}

\* mutation of PhoneFallback: the fallback uses the placeholder area code
PhoneFallback_Placeholder(tr, area_code) ==
    FormatPhone(PlaceholderAreaCode, Str(999),
                ZeroPad(Str(Cardinality(tr.phones)), SubscriberWidth))

\* the fallback: f"({area_code}) 999-{unique_num:04d}", on the last area code
PhoneFallback(tr, area_code) ==
    FormatPhone(area_code, Str(999),
                ZeroPad(Str(Cardinality(tr.phones)), SubscriberWidth))

\* mutation of RecordPhone: an issued phone is not tracked
RecordPhone_Forgotten(tr, phone) == tr

\* self.unique_tracker['phones'].add(phone)
RecordPhone(tr, phone) == [tr EXCEPT !.phones = @ \cup {phone}]

RECURSIVE PhoneLoop(_, _, _, _, _)
PhoneLoop(attempt, state, tr, st, area_code) ==
    IF attempt >= PhoneMaxAttempts
    THEN LET phone == PhoneFallback(tr, area_code)
         IN  {[phone |-> phone, path |-> "fallback",
               tr |-> RecordPhone(tr, phone), st |-> st]}
    ELSE UNION {
           LET phone == FormatPhone(p[1], Str(p[2]), Str(p[3]))
           IN  IF phone \notin tr.phones
               THEN {[phone |-> phone, path |-> "retry",
                      tr |-> RecordPhone(tr, phone), st |-> st]}
               ELSE PhoneLoop(attempt + 1, state, tr, Collided(st), p[1])
           : p \in PhonePicks(state)}

generate_phone_number(state, tr, st) == PhoneLoop(0, state, tr, st, <<>>)

\* ------------------------------------------------- generate_unique_email
\* domains, restricted to the first one (the one the fallback uses)
domains == <<"email.com">>

\* the four patterns of one attempt
patterns(first_name, last_name) ==
    << lower(first_name) \o <<".">> \o lower(last_name),
       <<LowerChar(first_name[1])>> \o lower(last_name),
       lower(first_name) \o <<LowerChar(last_name[1])>>,
       lower(first_name) \o <<"_">> \o lower(last_name) >>

\* random.choice(patterns), restricted to the first two patterns
PatternChoices == {1, 2}

\* random.randint(1, 9999) if attempt > 10 else random.randint(1, 99)
EmailSuffixMax(attempt) == IF attempt > 10 THEN 9999 ELSE 99

\* the suffixes the model draws
EmailNumChoices == {1, 100}

EmailNums(attempt) == {n \in EmailNumChoices : 1 <= n /\ n <= EmailSuffixMax(attempt)}

\* int(datetime.now().timestamp() * 1000) % 1000000: any value of 0..999999;
\* the model draws two of them
TimestampChoices == {1, 123456}

FormatEmail(local, num, domain) == local \o Str(num) \o <<"@", domain>>

\* mutation of RecordEmail: the set is replaced by the new e-mail alone
RecordEmail_Replacing(tr, email) == [tr EXCEPT !.emails = {email}]

\* self.unique_tracker['emails'].add(email)
RecordEmail(tr, email) == [tr EXCEPT !.emails = @ \cup {email}]

\* the fallback: f"{first.lower()}.{last.lower()}{timestamp}@{domains[0]}"
EmailFallback(first_name, last_name, timestamp) ==
    FormatEmail(lower(first_name) \o <<".">> \o lower(last_name), timestamp, domains[1])

RECURSIVE EmailLoop(_, _, _, _, _)
EmailLoop(attempt, first_name, last_name, tr, st) ==
    IF attempt >= EmailMaxAttempts
    THEN {LET email == EmailFallback(first_name, last_name, t)
          IN  [email |-> email, path |-> "fallback",
               tr |-> RecordEmail(tr, email), st |-> st]
          : t \in TimestampChoices}
    ELSE UNION {
           LET email == FormatEmail(p[1], p[2], p[3])
           IN  IF email \notin tr.emails
               THEN {[email |-> email, path |-> "retry",
                      tr |-> RecordEmail(tr, email), st |-> st]}
               ELSE EmailLoop(attempt + 1, first_name, last_name, tr, Collided(st))
           : p \in {patterns(first_name, last_name)[i] : i \in PatternChoices}
                     \X EmailNums(attempt) \X {domains[i] : i \in DOMAIN domains}}

generate_unique_email(first_name, last_name, tr, st) ==
    EmailLoop(0, first_name, last_name, tr, st)

\* ----------------------------------------------- generate_unique_address
\* f"{place['address']}, {place['city']}, {self.state_codes[state]} {place['zip']}":
\* the four parts, in order
FullAddress(place, state) == <<place.address, place.city, state_codes[state], place.zip>>

\* mutation of AcceptsPick: a used pick is accepted from attempt index n on
AcceptsPick_AtPlaceCount(attempt, n, full_address, tr) ==
    full_address \notin tr.addresses \/ attempt >= n

\* mutation of AcceptsPick: any pick is accepted from the second attempt on
AcceptsPick_FromSecondAttempt(attempt, n, full_address, tr) ==
    full_address \notin tr.addresses \/ attempt > 0

\* if full_address not in self.unique_tracker['addresses'] or attempt > len(places)
AcceptsPick(attempt, n, full_address, tr) ==
    full_address \notin tr.addresses \/ attempt > n

RECURSIVE AddressLoop(_, _, _, _)
AddressLoop(attempt, state, tr, st) ==
    LET places == public_places[state]
        n == Cardinality(places)
    IN  IF attempt >= n * 2
        THEN {[raised |-> FALSE, place |-> p, path |-> "reuse", tr |-> tr, st |-> st]
              : p \in places}
        ELSE UNION {
               LET full_address == FullAddress(p, state)
               IN  IF AcceptsPick(attempt, n, full_address, tr)
                   THEN {[raised |-> FALSE, place |-> p,
                          path |-> IF full_address \notin tr.addresses
                                   THEN "fresh" ELSE "loop_reuse",
                          tr |-> [tr EXCEPT !.addresses = @ \cup {full_address}],
                          st |-> st]}
                   ELSE AddressLoop(attempt + 1, state, tr, Collided(st))
               : p \in places}

NoPlace == [name |-> "", address |-> "", city |-> "", zip |-> ""]

\* mutation of generate_unique_address: the call that raises counts a persona
generate_unique_address_CountsFailure(state, tr, st) ==
    IF state \notin DOMAIN public_places
    THEN {[raised |-> TRUE, place |-> NoPlace, path |-> "KeyError", tr |-> tr,
           st |-> [st EXCEPT !.total_generated = @ + 1]]}
    ELSE AddressLoop(0, state, tr, st)

\* mutation of generate_unique_address: a state whose places are all used
\* is refused
generate_unique_address_UntilUsedUp(state, tr, st) ==
    IF \/ state \notin DOMAIN public_places
       \/ \A p \in public_places[state] : FullAddress(p, state) \in tr.addresses
    THEN {[raised |-> TRUE, place |-> NoPlace, path |-> "KeyError", tr |-> tr, st |-> st]}
    ELSE AddressLoop(0, state, tr, st)

\* places = self.public_places[state] raises KeyError for an unknown state
generate_unique_address(state, tr, st) ==
    IF state \notin DOMAIN public_places
    THEN {[raised |-> TRUE, place |-> NoPlace, path |-> "KeyError", tr |-> tr, st |-> st]}
    ELSE AddressLoop(0, state, tr, st)

\* ------------------------------------------------------ generate_persona
\* mutation of SelectedStates: None and 'Mixed' are used as a state name
SelectedStates_AsGiven(state) == {state}

\* the state the persona is generated for
SelectedStates(state) ==
    IF state # None /\ state # Mixed THEN {state} ELSE DOMAIN public_places

\* mutation of PersonaID: the ID is taken from the count before the persona
PersonaID_FromZero(st) == <<"P">> \o ZeroPad(Str(st.total_generated), 6)

\* 'ID': f"P{self.generation_stats['total_generated'] + 1:06d}"
PersonaID(st) == <<"P">> \o ZeroPad(Str(st.total_generated + 1), 6)

\* random.randint(1, 99) of the corrective pass, restricted to one value
CorrectiveNums == {1}

\* the persona dictionary ('Generated At', a wall-clock text, is left out)
MakePersona(st, first_name, last_name, email, phone, place, selected_state) ==
    [ID |-> PersonaID(st),
     FirstName |-> first_name,
     LastName |-> last_name,
     Email |-> email,
     Phone |-> phone,
     LocationName |-> place.name,
     StreetAddress |-> place.address,
     City |-> place.city,
     State |-> state_codes[selected_state],
     ZIPCode |-> place.zip,
     FullAddress |-> FullAddress(place, selected_state),
     Type |-> "Public Place"]

PersonaHash(first_name, last_name, email, phone, full_address) ==
    generate_unique_hash(<<first_name, last_name, email, phone, full_address>>)

\* mutation of FinishPersona: the persona is not counted
FinishPersona_NotCounted(persona, hash, paths, tr, st) ==
    [raised |-> FALSE, persona |-> persona, paths |-> paths,
     tr |-> [tr EXCEPT !.person_hashes = @ \cup {hash}],
     st |-> st]

\* the end of generate_persona: record the fingerprint, count the persona
FinishPersona(persona, hash, paths, tr, st) ==
    [raised |-> FALSE, persona |-> persona, paths |-> paths,
     tr |-> [tr EXCEPT !.person_hashes = @ \cup {hash}],
     st |-> [st EXCEPT !.total_generated = @ + 1]]

\* mutation of CheckPersona: the corrective pass is not counted
CheckPersona_NotCounted(persona, n, e, ph, a) ==
    LET hash == PersonaHash(n.first_name, n.last_name, persona.Email, persona.Phone,
                            persona.FullAddress)
        paths == [name |-> n.path, email |-> e.path, phone |-> ph.path,
                  address |-> a.path, corrected |-> FALSE,
                  first_email |-> persona.Email]
    IN  IF hash \in a.tr.person_hashes
        THEN UNION {
               {LET p2 == [persona EXCEPT !.Email = e2.email]
                IN  FinishPersona(p2,
                        PersonaHash(n.first_name, n.last_name, p2.Email, persona.Phone,
                                    persona.FullAddress),
                        [paths EXCEPT !.email = e2.path, !.corrected = TRUE],
                        e2.tr, e2.st)
                : e2 \in generate_unique_email(split0(n.first_name) \o Str(r), n.last_name,
                             a.tr, a.st)}
               : r \in CorrectiveNums}
        ELSE {FinishPersona(persona, hash, paths, a.tr, a.st)}

\* from the fingerprint check to the return
CheckPersona(persona, n, e, ph, a) ==
    LET hash == PersonaHash(n.first_name, n.last_name, persona.Email, persona.Phone,
                            persona.FullAddress)
        paths == [name |-> n.path, email |-> e.path, phone |-> ph.path,
                  address |-> a.path, corrected |-> FALSE,
                  first_email |-> persona.Email]
    IN  IF hash \in a.tr.person_hashes
        THEN UNION {
               {LET p2 == [persona EXCEPT !.Email = e2.email]
                IN  FinishPersona(p2,
                        PersonaHash(n.first_name, n.last_name, p2.Email, persona.Phone,
                                    persona.FullAddress),
                        [paths EXCEPT !.email = e2.path, !.corrected = TRUE],
                        e2.tr, e2.st)
                : e2 \in generate_unique_email(split0(n.first_name) \o Str(r), n.last_name,
                             a.tr, [a.st EXCEPT !.unique_regenerations = @ + 1])}
               : r \in CorrectiveNums}
        ELSE {FinishPersona(persona, hash, paths, a.tr, a.st)}

NoPersona == [ID |-> <<>>]
NoPaths ==
    [name |-> "", email |-> "", phone |-> "", address |-> "", corrected |-> FALSE,
     first_email |-> <<>>]

\* every result generate_persona(state) can produce from tracker tr and stats st:
\* a persona, or the KeyError of the address selector with what the name,
\* e-mail and phone generators did before it
generate_persona(state, tr, st) ==
    UNION { UNION { UNION { UNION { UNION {
        IF a.raised
        THEN {[raised |-> TRUE, persona |-> NoPersona, paths |-> NoPaths,
               tr |-> a.tr, st |-> a.st]}
        ELSE CheckPersona(
                 MakePersona(a.st, n.first_name, n.last_name, e.email, ph.phone,
                             a.place, sel),
                 n, e, ph, a)
        : a \in generate_unique_address(sel, ph.tr, ph.st) }
        : ph \in generate_phone_number(sel, e.tr, e.st) }
        : e \in generate_unique_email(split0(n.first_name), n.last_name, n.tr, n.st) }
        : n \in generate_unique_name(tr, st) }
        : sel \in SelectedStates(state) }

\* -------------------------------------------- generate_multiple_personas
\* mutation of BatchLoop: the loop body runs once before the count is tested
BatchLoop_BodyFirst(count, state, personas, tr, st) ==
    {IF o.raised
     THEN [raised |-> TRUE, personas |-> <<>>, tr |-> o.tr, st |-> o.st]
     ELSE [raised |-> FALSE,
           personas |-> Append(personas, [persona |-> o.persona, paths |-> o.paths]),
           tr |-> o.tr, st |-> o.st]
     : o \in generate_persona(state, tr, st)}

RECURSIVE BatchLoop(_, _, _, _, _)
\* the remaining `count` iterations of the loop; personas is the list so far
BatchLoop(count, state, personas, tr, st) ==
    IF count <= 0
    THEN {[raised |-> FALSE, personas |-> personas, tr |-> tr, st |-> st]}
    ELSE UNION {
           IF o.raised
           THEN {[raised |-> TRUE, personas |-> <<>>, tr |-> o.tr, st |-> o.st]}
           ELSE BatchLoop(count - 1, state,
                          Append(personas, [persona |-> o.persona, paths |-> o.paths]),
                          o.tr, o.st)
           : o \in generate_persona(state, tr, st)}

generate_multiple_personas(count, state, tr, st) == BatchLoop(count, state, <<>>, tr, st)

\* ------------------------------------------------- get_uniqueness_report
\* the report; 'Uniqueness Rate' is kept as the fraction it formats,
\* 1 - regenerations / max(total, 1), as <<numerator, denominator>>
get_uniqueness_report(tr, st) ==
    LET total == IF st.total_generated > 1 THEN st.total_generated ELSE 1
    IN  [TotalGenerated |-> st.total_generated,
         UniqueNames |-> Cardinality(tr.full_names),
         UniqueEmails |-> Cardinality(tr.emails),
         UniquePhones |-> Cardinality(tr.phones),
         UniqueAddressesUsed |-> Cardinality(tr.addresses),
         CollisionAttempts |-> st.collision_attempts,
         FallbackRegenerations |-> st.unique_regenerations,
         UniquenessRate |-> <<total - st.unique_regenerations, total>>]

NoReport == [TotalGenerated |-> -1]

\* ---------------------------------------------------------------- actions
\* main(): no 'generated_data', 'timestamp', 'uniqueness_report' key yet
NoSession == [generated_data |-> <<>>, timestamp |-> 0, uniqueness_report |-> NoReport]

NoCall == [op |-> "init", state |-> None, count |-> 0, raised |-> FALSE,
           value |-> <<>>, path |-> "", report |-> NoReport]

Init ==
    /\ unique_tracker = EmptyTracker
    /\ generation_stats = ZeroStats
    /\ issued = <<>>
    /\ failed = 0
    /\ ret = NoCall
    /\ session_state = NoSession
    /\ discarded = <<>>

\* runs of generate_persona made so far
Runs == Len(issued) + failed

\* a call generator.generate_persona(state)
GeneratePersona ==
    /\ Runs < MaxPersonas
    /\ \E state \in StateArgs :
       \E o \in generate_persona(state, unique_tracker, generation_stats) :
          /\ unique_tracker' = o.tr
          /\ generation_stats' = o.st
          /\ issued' = IF o.raised THEN issued
                       ELSE Append(issued, [persona |-> o.persona, paths |-> o.paths])
          /\ failed' = IF o.raised THEN failed + 1 ELSE failed
          /\ ret' = [NoCall EXCEPT !.op = "generate_persona", !.state = state,
                                   !.count = 1, !.raised = o.raised,
                                   !.value = IF o.raised THEN <<>>
                                             ELSE <<[persona |-> o.persona,
                                                     paths |-> o.paths]>>]
          /\ UNCHANGED <<session_state, discarded>>

\* the state arguments of the batch calls
BatchStateArgs == {"Wyoming", Atlantis}

\* the counts a caller passes: negative, zero and positive ones
Counts == (0 - 1)..MaxCount

\* a call generator.generate_multiple_personas(count, state)
GenerateMultiplePersonas ==
    \E count \in Counts, state \in BatchStateArgs :
       /\ count > 0 => Runs + count <= MaxPersonas
       /\ \E o \in generate_multiple_personas(count, state, unique_tracker,
                                              generation_stats) :
          /\ unique_tracker' = o.tr
          /\ generation_stats' = o.st
          /\ issued' = issued \o o.personas
          /\ failed' = IF o.raised THEN failed + 1 ELSE failed
          /\ ret' = [NoCall EXCEPT !.op = "generate_multiple_personas", !.state = state,
                                   !.count = count, !.raised = o.raised,
                                   !.value = o.personas]
          /\ UNCHANGED <<session_state, discarded>>

\* mutation of GetUniquenessReport: reading the report counts a regeneration
GetUniquenessReport_Counting ==
    /\ ret' = [NoCall EXCEPT !.op = "get_uniqueness_report",
                             !.report = get_uniqueness_report(unique_tracker,
                                                              generation_stats)]
    /\ generation_stats' = [generation_stats EXCEPT !.unique_regenerations = @ + 1]
    /\ generation_stats.unique_regenerations < MaxPersonas
    /\ UNCHANGED <<unique_tracker, issued, failed, session_state, discarded>>

\* a call generator.get_uniqueness_report()
GetUniquenessReport ==
    /\ ret' = [NoCall EXCEPT !.op = "get_uniqueness_report",
                             !.report = get_uniqueness_report(unique_tracker,
                                                              generation_stats)]
    /\ UNCHANGED <<unique_tracker, generation_stats, issued, failed>>
    /\ UNCHANGED <<session_state, discarded>>

Next ==
    \/ GeneratePersona
    \/ GenerateMultiplePersonas
    \/ GetUniquenessReport

\* every entry point, in any order
Spec == Init /\ [][Next]_vars

\* a caller that generates personas one at a time
SpecPersona == Init /\ [][GeneratePersona]_vars

NextBatch ==
    \/ GenerateMultiplePersonas
    \/ GetUniquenessReport

\* a caller that generates batches and reads the report, as main() does
SpecBatch == Init /\ [][NextBatch]_vars

\* ------------------------------------------- the field generators alone
\* a direct call generator.generate_unique_name()
CallGenerateUniqueName ==
    /\ Len(issued) < MaxNames
    /\ \E o \in generate_unique_name(unique_tracker, generation_stats) :
          /\ unique_tracker' = o.tr
          /\ generation_stats' = o.st
          /\ issued' = Append(issued, <<o.first_name, o.last_name>>)
          /\ ret' = [NoCall EXCEPT !.op = "generate_unique_name",
                                   !.value = <<o.first_name, o.last_name>>,
                                   !.path = o.path]
          /\ UNCHANGED <<failed, session_state, discarded>>

SpecName == Init /\ [][CallGenerateUniqueName]_vars

\* the state arguments of the direct phone calls
PhoneStateArgs == DOMAIN area_codes \cup {Atlantis}

\* a direct call generator.generate_phone_number(state)
CallGeneratePhoneNumber ==
    /\ Len(issued) < MaxPhones
    /\ \E state \in PhoneStateArgs :
       \E o \in generate_phone_number(state, unique_tracker, generation_stats) :
          /\ unique_tracker' = o.tr
          /\ generation_stats' = o.st
          /\ issued' = Append(issued, o.phone)
          /\ ret' = [NoCall EXCEPT !.op = "generate_phone_number", !.state = state,
                                   !.value = o.phone, !.path = o.path]
          /\ UNCHANGED <<failed, session_state, discarded>>

SpecPhone == Init /\ [][CallGeneratePhoneNumber]_vars

\* ------------------------------------ the suffix draw of the e-mail loop
\* max_attempts = 50 of generate_unique_email, at the source's size
SourceEmailAttempts == 50

\* the suffixes looked at: the ends of the two ranges and the values next to them
SuffixSamples == {1, 99, 100, 9999}

\* num = random.randint(1, 9999) if attempt > 10 else random.randint(1, 99),
\* at any attempt index of the loop: the range used and a number drawn from it
DrawSuffix ==
    /\ \E attempt \in 0..(SourceEmailAttempts - 1) :
       \E num \in {n \in SuffixSamples : 1 <= n /\ n <= EmailSuffixMax(attempt)} :
          ret' = [NoCall EXCEPT !.op = "randint", !.count = attempt,
                                !.value = <<1, EmailSuffixMax(attempt), num>>]
    /\ UNCHANGED <<unique_tracker, generation_stats, issued, failed, session_state,
                   discarded>>

SpecSuffix == Init /\ [][DrawSuffix]_vars

\* ----------------------------------------------- the draws that collide
\* a result of generate_persona in which the draws collided wherever a value
\* was tracked: the name and the phone come from their fallbacks and the
\* address is a used one
Unlucky(o, tr) ==
    /\ ~o.raised
    /\ tr.full_names # {} => o.paths.name = "fallback"
    /\ tr.phones # {} => o.paths.phone = "fallback"
    /\ tr.addresses # {} => o.paths.address # "fresh"

\* a call generator.generate_persona('Wyoming') with such draws
GeneratePersonaUnlucky ==
    /\ Len(issued) < MaxUnlucky
    /\ \E o \in {r \in generate_persona("Wyoming", unique_tracker, generation_stats) :
                    Unlucky(r, unique_tracker)} :
          /\ unique_tracker' = o.tr
          /\ generation_stats' = o.st
          /\ issued' = Append(issued, [persona |-> o.persona, paths |-> o.paths])
          /\ ret' = [NoCall EXCEPT !.op = "generate_persona", !.state = "Wyoming",
                                   !.count = 1,
                                   !.value = <<[persona |-> o.persona,
                                                paths |-> o.paths]>>]
          /\ UNCHANGED <<failed, session_state, discarded>>

\* a caller of generate_persona whose draws repeat the values already issued
SpecUnlucky == Init /\ [][GeneratePersonaUnlucky]_vars

\* the state arguments of the direct address calls
AddressStateArgs == DOMAIN public_places \cup {Atlantis}

\* a direct call generator.generate_unique_address(state)
CallGenerateUniqueAddress ==
    /\ Len(issued) + failed < MaxAddresses
    /\ \E state \in AddressStateArgs :
       \E o \in generate_unique_address(state, unique_tracker, generation_stats) :
          /\ unique_tracker' = o.tr
          /\ generation_stats' = o.st
          /\ issued' = IF o.raised THEN issued
                       ELSE Append(issued, [state |-> state, place |-> o.place])
          /\ failed' = IF o.raised THEN failed + 1 ELSE failed
          /\ ret' = [NoCall EXCEPT !.op = "generate_unique_address", !.state = state,
                                   !.raised = o.raised, !.value = o.place,
                                   !.path = o.path]
          /\ UNCHANGED <<session_state, discarded>>

SpecAddress == Init /\ [][CallGenerateUniqueAddress]_vars

\* ------------------------------------------------------- main(): the page
\* the options of the selectbox: 'Mixed (All States)' and the catalog's states
MixedOption == "Mixed (All States)"
SelectedStateOptions == {MixedOption, "Wyoming"}

\* runs of generate_persona made by all the generators of the session
SessionRuns == Len(discarded) + Runs

\* datetime.now(): a clock that advances with the work done in the session
Now(personas, raised) == SessionRuns + Len(personas) + (IF raised THEN 1 ELSE 0)

\* pd.DataFrame(personas): one row per persona, in order
DataFrame(personas) == [i \in 1..Len(personas) |-> personas[i].persona]

\* mutation of Stored: the three keys are written whether or not the call
\* raised
Stored_EitherWay(session, o, now) ==
    [generated_data |-> DataFrame(o.personas),
     timestamp |-> now,
     uniqueness_report |-> get_uniqueness_report(o.tr, o.st)]

\* the session after the try block: the three keys are assigned after
\* generate_multiple_personas returned; the except branch assigns nothing
Stored(session, o, now) ==
    IF o.raised THEN session
    ELSE [generated_data |-> DataFrame(o.personas),
          timestamp |-> now,
          uniqueness_report |-> get_uniqueness_report(o.tr, o.st)]

\* the handler of the "Generate Personas" button, run with one of `options`
\* selected: the try block and its except branch
Handler(options) ==
    \E num_personas \in 1..NumberInputMax, option \in options :
       LET selected_state == IF option = MixedOption THEN Mixed ELSE option
           state == IF selected_state # Mixed THEN selected_state ELSE None
       IN  /\ SessionRuns + num_personas <= MaxPersonas
           /\ \E o \in generate_multiple_personas(num_personas, state, unique_tracker,
                                                  generation_stats) :
              /\ unique_tracker' = o.tr
              /\ generation_stats' = o.st
              /\ issued' = issued \o o.personas
              /\ failed' = IF o.raised THEN failed + 1 ELSE failed
              /\ session_state' = Stored(session_state, o, Now(o.personas, o.raised))
              /\ ret' = [NoCall EXCEPT !.op = "generate_button", !.state = state,
                                       !.count = num_personas, !.raised = o.raised,
                                       !.value = o.personas]
              /\ UNCHANGED discarded

\* the "Generate Personas" button of the page
GenerateButton == Handler(SelectedStateOptions)

\* mutation of ResetTracking: the counters of the old generator are kept
ResetTracking_KeepsCounters ==
    /\ unique_tracker' = EmptyTracker
    /\ discarded' = discarded \o issued
    /\ issued' = <<>>
    /\ ret' = [NoCall EXCEPT !.op = "reset_button"]
    /\ UNCHANGED <<generation_stats, failed, session_state>>

\* the "Reset Tracking" button: st.session_state['generator'] = PersonaGenerator()
ResetTracking ==
    /\ unique_tracker' = EmptyTracker
    /\ generation_stats' = ZeroStats
    /\ discarded' = discarded \o issued
    /\ issued' = <<>>
    /\ ret' = [NoCall EXCEPT !.op = "reset_button"]
    /\ UNCHANGED <<failed, session_state>>

NextPage ==
    \/ GenerateButton
    \/ ResetTracking

\* a user of the page: generate and reset, in any order
SpecPage == Init /\ [][NextPage]_vars

\* the handler run with a selection whose generation fails as well: the
\* selectbox offers catalog states only, for which generate_multiple_personas
\* returns, so the except branch is taken here for a state that is no key of
\* public_places
FailingOptions == SelectedStateOptions \cup {Atlantis}
RunHandler == Handler(FailingOptions)

SpecHandler == Init /\ [][RunHandler]_vars

\* ================================================================ claims
\* the personas returned so far, in order (behaviours of Spec)
Persona(k) == issued[k].persona
Paths(k) == issued[k].paths

IsBatch(r) == r.op = "generate_multiple_personas"
IsSingle(r) == r.op = "generate_persona"

\* C1: when two returned personas share an e-mail, a phone or a
\* (first, last) pair, the later one got that field from the field's fallback;
\* a value accepted inside a retry loop never equals a value issued earlier.
C1_RetryValuesAreNew ==
    \A i, j \in 1..Len(issued) :
        i < j =>
          /\ Persona(i).Email = Persona(j).Email => Paths(j).email = "fallback"
          /\ Persona(i).Phone = Persona(j).Phone => Paths(j).phone = "fallback"
          /\ (/\ Persona(i).FirstName = Persona(j).FirstName
              /\ Persona(i).LastName = Persona(j).LastName) => Paths(j).name = "fallback"

\* two personas share a phone, and a third value was accepted by a retry
\* loop while the tracker already held values
C1_Witness ==
    /\ IsSingle(ret)
    /\ \E i, j \in 1..Len(issued) :
          /\ i < j
          /\ Persona(i).Phone = Persona(j).Phone
          /\ Paths(j).phone = "fallback"
          /\ Paths(j).email = "retry"
          /\ Persona(i).Email # Persona(j).Email

\* the values of a field over a list of returned personas
Emails(ps) == {ps[k].persona.Email : k \in 1..Len(ps)}
Phones(ps) == {ps[k].persona.Phone : k \in 1..Len(ps)}
NamePairs(ps) == {<<ps[k].persona.FirstName, ps[k].persona.LastName>> : k \in 1..Len(ps)}

\* a step that is a successful generate_multiple_personas(N >= 1, state) on a
\* generator in its freshly created state
FreshBatchStep ==
    /\ unique_tracker = EmptyTracker
    /\ generation_stats = ZeroStats
    /\ IsBatch(ret')
    /\ ret'.count >= 1
    /\ ~ret'.raised

\* C2: a batch of N on a fresh generator that ends with unique_regenerations = 0
\* returns N distinct e-mails, N distinct phones and N distinct name pairs.
C2_BatchDistinctWhenNoRegeneration ==
    [][(FreshBatchStep /\ generation_stats'.unique_regenerations = 0) =>
          /\ Cardinality(Emails(ret'.value)) = ret'.count
          /\ Cardinality(Phones(ret'.value)) = ret'.count
          /\ Cardinality(NamePairs(ret'.value)) = ret'.count]_vars

IsNameCall(r) == r.op = "generate_unique_name"

\* C3: the full name the name fallback returns is absent from full_names at
\* the moment it is recorded.
C3_NameFallbackIsNew ==
    [][(IsNameCall(ret') /\ ret'.path = "fallback") =>
          FullName(ret'.value[1], ret'.value[2]) \notin unique_tracker.full_names]_vars

\* the full names the retry loop can issue: those without a middle initial
PlainFullNames == {FullName(p[1], p[2]) : p \in NamePicks}

Letters == {chr65(k) : k \in 0..25}

\* C4: the name fallback returns '<first> <letter>', a full name that differs
\* from every full name without middle initial, records the full name and its
\* hash and adds exactly 1 to unique_regenerations; a name accepted by the
\* retry loop leaves unique_regenerations unchanged.
C4_NameFallbackEffect ==
    [][IsNameCall(ret') =>
         LET first == ret'.value[1]
             last == ret'.value[2]
         IN  /\ ret'.path = "fallback" =>
                  /\ \E p \in NamePicks, c \in Letters :
                        first = p[1] \o <<" ", c>> /\ last = p[2]
                  /\ FullName(first, last) \notin PlainFullNames
                  /\ FullName(first, last) \in unique_tracker'.full_names
                  /\ NameHash(first, last) \in unique_tracker'.name_hashes
                  /\ generation_stats'.unique_regenerations =
                        generation_stats.unique_regenerations + 1
                  /\ generation_stats'.collision_attempts =
                        generation_stats.collision_attempts + NameMaxAttempts
             /\ ret'.path = "retry" =>
                  /\ generation_stats'.unique_regenerations =
                        generation_stats.unique_regenerations
                  /\ FullName(first, last) \in PlainFullNames]_vars

\* a fallback name was returned after retry names had been issued
C4_Witness ==
    /\ IsNameCall(ret)
    /\ ret.path = "fallback"
    /\ generation_stats.unique_regenerations = 1
    /\ unique_tracker.full_names \cap PlainFullNames # {}

IsPhoneCall(r) == r.op = "generate_phone_number"

\* C5: the phone fallback produces a phone that is not in the tracker's phone
\* set whenever the number of tracked phones fits the subscriber field.
C5_PhoneFallbackIsNew ==
    [][(/\ IsPhoneCall(ret')
        /\ ret'.path = "fallback"
        /\ Cardinality(unique_tracker.phones) <= SubscriberMax) =>
          ret'.value \notin unique_tracker.phones]_vars

\* the area code of a formatted phone: the three characters after "("
AreaCodeOf(phone) == SubSeq(phone, 2, 4)

\* C6: every phone generate_phone_number(state) returns, from the retry loop or
\* from the fallback, carries an area code of area_codes[state] when the state
\* is in the catalog and the placeholder 555 when it is not.
C6_AreaCodeOfState ==
    IsPhoneCall(ret) =>
        /\ ret.value[1] = "(" /\ ret.value[5] = ")"
        /\ IF ret.state \in DOMAIN area_codes
           THEN AreaCodeOf(ret.value) \in area_codes[ret.state]
           ELSE AreaCodeOf(ret.value) = <<"5", "5", "5">>

\* a fallback phone for a catalog state, issued after a phone of another state
C6_Witness ==
    /\ IsPhoneCall(ret)
    /\ ret.path = "fallback"
    /\ ret.state \in DOMAIN area_codes
    /\ \E k \in 1..Len(issued) : AreaCodeOf(issued[k]) # AreaCodeOf(ret.value)

RECURSIVE DigitsValue(_)
\* the number a text of decimal digits denotes (-1 when it is no such text)
DigitsValue(ds) ==
    LET d == [c \in {"0", "1", "2", "3", "4", "5", "6", "7", "8", "9"} |->
                CASE c = "0" -> 0 [] c = "1" -> 1 [] c = "2" -> 2 [] c = "3" -> 3
                  [] c = "4" -> 4 [] c = "5" -> 5 [] c = "6" -> 6 [] c = "7" -> 7
                  [] c = "8" -> 8 [] OTHER -> 9]
    IN  IF ds = <<>> THEN 0
        ELSE LET c == ds[Len(ds)]
                 rest == DigitsValue(SubSeq(ds, 1, Len(ds) - 1))
             IN  IF c \notin DOMAIN d \/ rest < 0 THEN 0 - 1 ELSE rest * 10 + d[c]

\* C7: the k-th persona a generator returned has ID "P" + k padded to six
\* digits; the IDs are pairwise distinct and increase in generation order.
C7_SequentialIDs ==
    /\ \A k \in 1..Len(issued) :
          /\ Len(Persona(k).ID) = 7
          /\ Head(Persona(k).ID) = "P"
          /\ DigitsValue(Tail(Persona(k).ID)) = k
    /\ \A i, j \in 1..Len(issued) :
          i < j => /\ Persona(i).ID # Persona(j).ID
                   /\ DigitsValue(Tail(Persona(i).ID)) < DigitsValue(Tail(Persona(j).ID))

\* two personas returned by consecutive calls, after a call that raised
C7_Witness ==
    /\ IsBatch(ret)
    /\ Len(ret.value) = 1
    /\ Len(issued) = 2

\* a call of generate_persona or generate_multiple_personas (count >= 1) with
\* a state name that is no key of the catalog
UnknownStateCall(r) ==
    /\ IsSingle(r) \/ (IsBatch(r) /\ r.count >= 1)
    /\ r.state \notin DOMAIN public_places \cup {None, Mixed}

\* C8: a call with an unknown state name raises and leaves the six tracker
\* sets and the three counters as they were.
C8_UnknownStateLeavesTracker ==
    [][UnknownStateCall(ret') =>
          /\ ret'.raised
          /\ unique_tracker' = unique_tracker
          /\ generation_stats' = generation_stats]_vars

\* C9: generate_multiple_personas with count <= 0 raises (InvalidCount).
C9_NonPositiveCountRaises ==
    [][(IsBatch(ret') /\ ret'.count <= 0) => ret'.raised]_vars

\* C10: generate_multiple_personas with count <= 0 produces no persona and
\* leaves every tracker set and every counter unchanged.
C10_NonPositiveCountNoEffect ==
    [][(IsBatch(ret') /\ ret'.count <= 0) =>
          /\ ret'.value = <<>>
          /\ issued' = issued
          /\ unique_tracker' = unique_tracker
          /\ generation_stats' = generation_stats]_vars

\* a count <= 0 call on a generator that has already issued a persona
C10_Witness ==
    /\ IsBatch(ret)
    /\ ret.count <= 0
    /\ Len(issued) >= 1
    /\ unique_tracker.emails # {}

\* C11: a batch call whose count is above the configured maximum (the limit of
\* the number input) is rejected before generation: it raises, returns no
\* persona and leaves the tracker and the counters unchanged.
C11_OverLimitRejected ==
    [][(IsBatch(ret') /\ ret'.count > NumberInputMax)
         => /\ ret'.raised
            /\ ret'.value = <<>>
            /\ unique_tracker' = unique_tracker
            /\ generation_stats' = generation_stats]_vars

\* the values the generators replaced by a reset had issued
IsReset(r) == r.op = "reset_button"
IsRequest(r) == r.op = "generate_button"
Discarded(k) == discarded[k].persona

\* C12: a reset leaves a generator whose six sets are empty and whose three
\* counters are 0, so its report shows Total Generated 0, no name, e-mail or
\* phone issued before the reset is tracked any more (each can be accepted
\* again by a retry loop), and the first persona generated after the reset
\* has ID P000001.
C12_ResetStartsFresh ==
    [][/\ IsReset(ret') =>
            /\ \A set \in DOMAIN unique_tracker' : unique_tracker'[set] = {}
            /\ \A counter \in DOMAIN generation_stats' : generation_stats'[counter] = 0
            /\ get_uniqueness_report(unique_tracker', generation_stats').TotalGenerated = 0
            /\ \A k \in 1..Len(discarded') :
                  /\ NameIsNew(unique_tracker', Discarded(k).FirstName', Discarded(k).LastName')
                  /\ Discarded(k).Email' \notin unique_tracker'.emails
                  /\ Discarded(k).Phone' \notin unique_tracker'.phones
       /\ (IsRequest(ret') /\ discarded # <<>> /\ issued = <<>> /\ ~ret'.raised) =>
            ret'.value[1].persona.ID = <<"P", "0", "0", "0", "0", "0", "1">>]_vars

\* after a reset, a persona got by retry accepts the name, the e-mail and the
\* phone of a persona issued before the reset
C12_Witness ==
    /\ IsRequest(ret)
    /\ \E i \in 1..Len(discarded), j \in 1..Len(issued) :
          /\ Persona(j).FirstName = Discarded(i).FirstName
          /\ Persona(j).LastName = Discarded(i).LastName
          /\ Persona(j).Email = Discarded(i).Email
          /\ Persona(j).Phone = Discarded(i).Phone
          /\ Persona(j).ID = <<"P", "0", "0", "0", "0", "0", "1">>
          /\ Paths(j).name = "retry"
          /\ Paths(j).email = "retry"
          /\ Paths(j).phone = "retry"

IsAddressCall(r) == r.op = "generate_unique_address"
Tracked(place, state, tr) == FullAddress(place, state) \in tr.addresses
AllTracked(state, tr) == \A p \in public_places[state] : Tracked(p, state, tr)

\* C13: for a catalog state the address selector never raises and returns a
\* place of that state's list, however often it is called; once every place of
\* the state is tracked, each further call returns an already-used place.
C13_AddressNeverRunsOut ==
    [][(IsAddressCall(ret') /\ ret'.state \in DOMAIN public_places)
         => /\ ~ret'.raised
            /\ ret'.value \in public_places[ret'.state]
            /\ Tracked(ret'.value, ret'.state, unique_tracker')
            /\ AllTracked(ret'.state, unique_tracker)
                  => /\ Tracked(ret'.value, ret'.state, unique_tracker)
                     /\ unique_tracker' = unique_tracker]_vars

\* a state was asked for more often than it has places, and the last call
\* returned a used place
C13_Witness ==
    /\ IsAddressCall(ret)
    /\ ~ret.raised
    /\ \E s \in DOMAIN public_places :
          /\ ret.state = s
          /\ Cardinality({k \in 1..Len(issued) : issued[k].state = s})
                > Cardinality(public_places[s])
          /\ AllTracked(s, unique_tracker)
    /\ ret.path = "loop_reuse"

Identity(persona) ==
    <<persona.FirstName, persona.LastName, persona.Email, persona.Phone,
      persona.FullAddress>>

\* C15: no two personas returned by one generator are equal in all of first
\* name, last name, e-mail, phone and full address, also when the fingerprint
\* check fired and the corrective e-mail regeneration ran.
C15_PersonasDistinct ==
    \A i, j \in 1..Len(issued) :
        i < j => Identity(Persona(i)) # Identity(Persona(j))

\* the keys of a persona and what it means for each to be filled in
PersonaKeys ==
    {"ID", "FirstName", "LastName", "Email", "Phone", "LocationName",
     "StreetAddress", "City", "State", "ZIPCode", "FullAddress", "Type"}
TextKeys == {"ID", "FirstName", "LastName", "Email", "Phone"}

Populated(persona) ==
    /\ DOMAIN persona = PersonaKeys
    /\ \A key \in TextKeys : Len(persona[key]) > 0
    /\ \A key \in PersonaKeys \ (TextKeys \cup {"FullAddress"}) : persona[key] # ""
    /\ \E state \in DOMAIN public_places :
          /\ persona.State = state_codes[state]
          /\ \E place \in public_places[state] :
                /\ persona.FullAddress = FullAddress(place, state)
                /\ persona.LocationName = place.name

\* C16: generate_persona called with None or with a catalog state returns a
\* fully populated persona and never raises, whatever collided and whichever
\* retry budgets ran out; a given state is the persona's state.
C16_PersonaAlwaysReturned ==
    [][(IsSingle(ret') /\ ret'.state \in DOMAIN public_places \cup {None})
         => /\ ~ret'.raised
            /\ Len(ret'.value) = 1
            /\ Populated(ret'.value[1].persona)
            /\ ret'.state # None
                  => ret'.value[1].persona.State = state_codes[ret'.state]]_vars

\* a persona whose name, e-mail and phone all came from the fallbacks
C16_Witness ==
    /\ IsSingle(ret)
    /\ ret.state \in DOMAIN public_places \cup {None}
    /\ ~ret.raised
    /\ ret.value[1].paths.name = "fallback"
    /\ ret.value[1].paths.email = "fallback"
    /\ ret.value[1].paths.phone = "fallback"

\* what generate_persona writes for the persona it returns
Recorded(persona, tr) ==
    /\ FullName(persona.FirstName, persona.LastName) \in tr.full_names
    /\ NameHash(persona.FirstName, persona.LastName) \in tr.name_hashes
    /\ persona.Email \in tr.emails
    /\ persona.Phone \in tr.phones
    /\ persona.FullAddress \in tr.addresses
    /\ PersonaHash(persona.FirstName, persona.LastName, persona.Email, persona.Phone,
                   persona.FullAddress) \in tr.person_hashes

IsReport(r) == r.op = "get_uniqueness_report"

\* C18: get_uniqueness_report is a pure read: a call leaves the six sets and
\* the three counters as they were, and two calls with no generation between
\* them return equal reports.
C18_ReportIsPureRead ==
    [][IsReport(ret')
         => /\ unique_tracker' = unique_tracker
            /\ generation_stats' = generation_stats
            /\ ret'.report = get_uniqueness_report(unique_tracker', generation_stats')
            /\ IsReport(ret) => ret'.report = ret.report]_vars

\* a report read after personas were generated and values collided
C18_Witness ==
    /\ IsReport(ret)
    /\ ret.report.TotalGenerated >= 1
    /\ ret.report.CollisionAttempts >= 1
    /\ ret.report.UniqueEmails = Cardinality(unique_tracker.emails)

\* C19: within the lifetime of one generator every operation, whether it
\* returns or raises, leaves each of the six sets a superset of what it was
\* and each of the three counters at least what it was.
C19_TrackerOnlyGrows ==
    [][/\ \A set \in DOMAIN unique_tracker :
             unique_tracker[set] \subseteq unique_tracker'[set]
       /\ \A counter \in DOMAIN generation_stats :
             generation_stats'[counter] >= generation_stats[counter]]_vars

\* a call that raised after personas were returned, and a tracker that holds
\* more e-mails than personas were returned
C19_Witness ==
    /\ IsBatch(ret)
    /\ ret.raised
    /\ Len(issued) >= 1
    /\ Cardinality(unique_tracker.emails) > Len(issued)
    /\ generation_stats.collision_attempts >= 1

\* C20: a request whose generate_multiple_personas call raises leaves the
\* session's generated_data, timestamp and uniqueness_report as they were;
\* the three are replaced only by a request whose whole batch completed, and
\* then by the batch, the time and the report of that request.
C20_FailedRequestKeepsSession ==
    [][/\ (IsRequest(ret') /\ ret'.raised) => session_state' = session_state
       /\ session_state' # session_state
            => /\ IsRequest(ret')
               /\ ~ret'.raised
               /\ Len(ret'.value) = ret'.count
               /\ session_state'.generated_data = DataFrame(ret'.value)
               /\ session_state'.timestamp > session_state.timestamp
               /\ session_state'.uniqueness_report
                     = get_uniqueness_report(unique_tracker', generation_stats')]_vars

\* a request failed after an earlier one had stored its batch; the stored
\* report is the earlier one although the failed request changed the generator
C20_Witness ==
    /\ IsRequest(ret)
    /\ ret.raised
    /\ Len(session_state.generated_data) >= 1
    /\ session_state.timestamp >= 1
    /\ session_state.uniqueness_report
         # get_uniqueness_report(unique_tracker, generation_stats)

\* C21: a batch of as many personas as Wyoming has places (5 in the source),
\* asked for 'Wyoming' of a fresh generator, returns that many distinct phones,
\* all with area code 307, that many distinct e-mails, that many distinct
\* (first, last) pairs, and addresses that are each one of Wyoming's places,
\* whatever the random draws are.
C21_WyomingBatchDistinct ==
    [][(FreshBatchStep /\ ret'.state = "Wyoming"
          /\ ret'.count = Cardinality(public_places["Wyoming"]))
         => /\ Len(ret'.value) = ret'.count
            /\ Cardinality(Phones(ret'.value)) = ret'.count
            /\ \A ph \in Phones(ret'.value) : AreaCodeOf(ph) = <<"3", "0", "7">>
            /\ Cardinality(Emails(ret'.value)) = ret'.count
            /\ Cardinality(NamePairs(ret'.value)) = ret'.count
            /\ \A k \in 1..Len(ret'.value) :
                  \E place \in public_places["Wyoming"] :
                     ret'.value[k].persona.FullAddress = FullAddress(place, "Wyoming")]_vars

\* the last generate_persona call returned a persona: its record and whether
\* the fingerprint of the fields as first generated was tracked before the call
Returned(r) == r.value[1]
FirstFingerprint(r) ==
    PersonaHash(Returned(r).persona.FirstName, Returned(r).persona.LastName,
                Returned(r).paths.first_email, Returned(r).persona.Phone,
                Returned(r).persona.FullAddress)
FinalFingerprint(r) ==
    PersonaHash(Returned(r).persona.FirstName, Returned(r).persona.LastName,
                Returned(r).persona.Email, Returned(r).persona.Phone,
                Returned(r).persona.FullAddress)
NameRegenerations(r) == IF Returned(r).paths.name = "fallback" THEN 1 ELSE 0

\* C22: when the fingerprint of the generated fields is already in
\* person_hashes, one corrective pass runs: only the e-mail is generated again
\* (one name, one phone and at most one address are written by the call),
\* unique_regenerations grows by 1 for it, the recomputed fingerprint is
\* recorded whether or not it is tracked, and total_generated grows by 1; when
\* the fingerprint is not tracked the persona keeps its first e-mail and the
\* check counts no regeneration.
C22_OneCorrectivePass ==
    [][(IsSingle(ret') /\ ~ret'.raised) =>
         LET p == Returned(ret').persona
             hit == FirstFingerprint(ret') \in unique_tracker.person_hashes
         IN  /\ Returned(ret').paths.corrected = hit
             /\ generation_stats'.total_generated = generation_stats.total_generated + 1
             /\ generation_stats'.unique_regenerations
                  = generation_stats.unique_regenerations + NameRegenerations(ret')
                    + (IF hit THEN 1 ELSE 0)
             /\ unique_tracker'.person_hashes
                  = unique_tracker.person_hashes \cup {FinalFingerprint(ret')}
             /\ unique_tracker'.full_names
                  = unique_tracker.full_names \cup {FullName(p.FirstName, p.LastName)}
             /\ unique_tracker'.phones \subseteq unique_tracker.phones \cup {p.Phone}
             /\ unique_tracker'.addresses = unique_tracker.addresses \cup {p.FullAddress}
             /\ unique_tracker'.emails
                  = unique_tracker.emails \cup {Returned(ret').paths.first_email, p.Email}
             /\ ~hit => p.Email = Returned(ret').paths.first_email]_vars

\* a corrective pass ran and its recomputed fingerprint, already tracked, was
\* recorded all the same
C22_Witness ==
    /\ IsSingle(ret)
    /\ ~ret.raised
    /\ Returned(ret).paths.corrected
    /\ Returned(ret).persona.Email # Returned(ret).paths.first_email
    /\ \E k \in 1..(Len(issued) - 1) :
          Identity(Persona(k)) = Identity(Returned(ret).persona)

IsSuffixDraw(r) == r.op = "randint"

\* C23: the e-mail suffix is drawn from 1..99 on exactly the first 10 attempts
\* (the 1st to the 10th) and from 1..9999 on every later attempt (the 11th to
\* the 50th).
C23_SuffixRange ==
    IsSuffixDraw(ret) =>
        LET nth == ret.count + 1
        IN  /\ ret.value[1] = 1
            /\ ret.value[2] = IF nth <= 10 THEN 99 ELSE 9999
            /\ ret.value[1] <= ret.value[3] /\ ret.value[3] <= ret.value[2]

\* the attempts of the last address call that were rejected
Rejected == generation_stats'.collision_attempts - generation_stats.collision_attempts

\* C24: for a state with n places, an attempt whose pick is untracked accepts
\* it at once and tracks it; a pick that is already tracked is accepted only
\* at an attempt index above n; each rejected attempt adds 1 to
\* collision_attempts and nothing else; there are at most 2n attempts, and the
\* return after the loop is taken only when all 2n were rejected.
C24_AddressAttempts ==
    [][(IsAddressCall(ret') /\ ~ret'.raised) =>
         LET state == ret'.state
             n == Cardinality(public_places[state])
             full_address == FullAddress(ret'.value, state)
         IN  /\ 0 <= Rejected /\ Rejected <= 2 * n
             /\ generation_stats' = [generation_stats EXCEPT
                                       !.collision_attempts = @ + Rejected]
             /\ Rejected >= 1 => \E p \in public_places[state] :
                                    Tracked(p, state, unique_tracker)
             /\ ret'.path = "reuse" <=> Rejected = 2 * n
             /\ IF Tracked(ret'.value, state, unique_tracker)
                THEN /\ ret'.path \in {"loop_reuse", "reuse"}
                     /\ Rejected > n
                     /\ unique_tracker' = unique_tracker
                ELSE /\ ret'.path = "fresh"
                     /\ Rejected < 2 * n
                     /\ unique_tracker'
                          = [unique_tracker EXCEPT !.addresses = @ \cup {full_address}]]_vars

\* an untracked pick accepted after rejected attempts, in a step that leaves
\* every place of the state tracked
C24_Witness ==
    /\ IsAddressCall(ret)
    /\ ret.path = "fresh"
    /\ generation_stats.collision_attempts >= 3
    /\ AllTracked(ret.state, unique_tracker)
    /\ Len(issued) = Cardinality(public_places[ret.state])

\* the attempts one generate_persona call can make: name, phone, e-mail and
\* address budgets, and the e-mail budget once more for the corrective pass
AttemptBudget(state, corrected) ==
    NameMaxAttempts + PhoneMaxAttempts + EmailMaxAttempts
      + 2 * Cardinality(public_places[state])
      + (IF corrected THEN EmailMaxAttempts ELSE 0)

C26_RegenerationsAtMostTotal ==
    /\ generation_stats.unique_regenerations <= generation_stats.total_generated
    /\ LET rate == get_uniqueness_report(unique_tracker, generation_stats).UniquenessRate
       IN  0 <= rate[1] /\ rate[1] <= rate[2]

\* the catalog states a selector can resolve to
Resolutions(state) ==
    IF state \in {None, Mixed} THEN DOMAIN public_places ELSE {state}

\* persona is made of one place of state S, the code of S and a phone of S
ConsistentWith(persona, S) ==
    /\ persona.State = state_codes[S]
    /\ AreaCodeOf(persona.Phone) \in area_codes[S]
    /\ \E place \in public_places[S] :
          /\ persona.LocationName = place.name
          /\ persona.StreetAddress = place.address
          /\ persona.City = place.city
          /\ persona.ZIPCode = place.zip
          /\ persona.FullAddress = FullAddress(place, S)

\* C27: a persona returned by generate_persona is consistent with one catalog
\* state S, the given state or some state when the selector is None or
\* 'Mixed': State is the code of S, the location, street, city and ZIP are
\* those of one place of S, Full Address is composed from that place and code,
\* and the phone's area code is one of S.
C27_PersonaOfOneState ==
    (IsSingle(ret) /\ ~ret.raised) =>
        \E S \in Resolutions(ret.state) : ConsistentWith(Returned(ret).persona, S)

\* a persona for the selector None, resolved to Alabama after a persona of
\* Wyoming
C27_Witness ==
    /\ IsSingle(ret)
    /\ ret.state = None
    /\ ~ret.raised
    /\ Returned(ret).persona.State = "AL"
    /\ \E k \in 1..Len(issued) : Persona(k).State = "WY"

\* C28: every value of a returned persona is tracked: its e-mail, its phone,
\* its 'first last' full name, its full address and its fingerprint are in the
\* tracker's sets, whether they came from a retry, a fallback, an address
\* reuse or the corrective pass.
C28_IssuedValuesTracked ==
    \A k \in 1..Len(issued) : Recorded(Persona(k), unique_tracker)

\* a returned persona with fallback name, phone and e-mail, a reused address
\* and a corrected e-mail
C28_Witness ==
    \E k \in 1..Len(issued) :
       /\ Paths(k).corrected
       /\ Paths(k).name = "fallback"
       /\ Paths(k).phone = "fallback"
       /\ Paths(k).address = "loop_reuse"
       /\ Recorded(Persona(k), unique_tracker)
       /\ Paths(k).first_email \in unique_tracker.emails

\* C29: a generate_persona call that fails on an unrecognized state consumes
\* no ID: it leaves total_generated and person_hashes as they were and returns
\* nothing, and a persona returned afterwards has the number that follows the
\* personas returned so far, so the IDs have no gap.
C29_FailedCallConsumesNoID ==
    [][IsSingle(ret') =>
         IF ret'.raised
         THEN /\ generation_stats'.total_generated = generation_stats.total_generated
              /\ unique_tracker'.person_hashes = unique_tracker.person_hashes
              /\ issued' = issued
         ELSE /\ DigitsValue(Tail(Returned(ret').persona.ID)) = Len(issued) + 1
              /\ generation_stats'.total_generated = Len(issued')]_vars

\* a persona returned after a call that failed: it has the first ID although
\* the failed call left its name, e-mail and phone in the tracker
C29_Witness ==
    /\ IsSingle(ret)
    /\ ~ret.raised
    /\ failed >= 1
    /\ Returned(ret).persona.ID = <<"P", "0", "0", "0", "0", "0", "1">>
    /\ Cardinality(unique_tracker.emails) = 2
    /\ Cardinality(unique_tracker.person_hashes) = 1

\* the two name sets hold the same names: as many elements, each hash is the
\* hash of a pair whose full name is tracked, each full name that of a hashed
\* pair (the hash is the pair itself, an injective function)
NamesInStep(tr) ==
    /\ Cardinality(tr.full_names) = Cardinality(tr.name_hashes)
    /\ \A h \in tr.name_hashes : FullName(h[1], h[2]) \in tr.full_names
    /\ \A full_name \in tr.full_names :
          \E h \in tr.name_hashes : full_name = FullName(h[1], h[2])

\* C30: full_names and name_hashes stay in step in every reachable state, and
\* a call changes them only by what generate_unique_name adds for the one name
\* it produced, to both sets; the e-mail, phone and address generators, the
\* fingerprint check and a call that raises add nothing else.
C30_NameSetsInStep ==
    [][/\ NamesInStep(unique_tracker')
       /\ IsSingle(ret') =>
            /\ Cardinality(unique_tracker'.full_names \ unique_tracker.full_names) <= 1
            /\ Cardinality(unique_tracker'.name_hashes \ unique_tracker.name_hashes) <= 1
            /\ ~ret'.raised =>
                 LET p == Returned(ret').persona
                 IN  /\ unique_tracker'.full_names
                          = unique_tracker.full_names \cup {FullName(p.FirstName, p.LastName)}
                     /\ unique_tracker'.name_hashes
                          = unique_tracker.name_hashes \cup {NameHash(p.FirstName, p.LastName)}]_vars

\* the sets after a retry name, a fallback name and a call that raised
C30_Witness ==
    /\ IsSingle(ret)
    /\ failed >= 1
    /\ Cardinality(unique_tracker.name_hashes) = 2
    /\ Cardinality(unique_tracker.full_names) = 2
    /\ \E h \in unique_tracker.name_hashes :
          h[1] # James /\ split0(h[1]) = James /\ h[2] = Smith
    /\ generation_stats.unique_regenerations >= 1

====
